---- MODULE Spec2Model ----
(***************************************************************************)
(* RAG_AI-Chat-PDF: the Express server (server/index.js and its Hugging    *)
(* Face and Ollama variants), the BullMQ queue "file-upload-queue", the    *)
(* worker that ingests uploaded PDFs into the Qdrant collection, and the   *)
(* GET /chat handler that retrieves chunks and asks the language model.    *)
(*                                                                         *)
(* Strings are modelled as sequences of tokens (each token a TLA+ string): *)
(* String.includes(s) is "s is one of the tokens", concatenation is \o.    *)
(***************************************************************************)
EXTENDS Integers, Sequences, FiniteSets, TLC

\* ------------------------------------------------------------------ bounds

\* Number of POST /upload/pdf requests a behaviour issues.
MaxUploads == 2

\* Largest number of chunks the text splitter produces for one PDF.
MaxChunks == 2

\* Number of turns the conversation of the chat component grows to.
MaxMessages == 4

\* ------------------------------------------------------- program constants

\* retriever k (asRetriever({ k: 3 })).
RetrieverK == 3

\* Worker option concurrency: 5.
WorkerConcurrency == 5

\* BullMQ's default number of attempts for a job added without options.
DefaultAttempts == 1

\* doc.pageContent?.substring(0, 150) in the source list of the client.
DisplayChars == 150

\* The text of a chunk is counted in blocks of 100 characters, one token "w"
\* each (the splitter's chunkSize is 1000 characters).
BlockChars == 100

\* ------------------------------------------------------------------ values

Variants == {"gemini", "hf", "ollama"}

\* Files a multipart request can carry.
PdfFile == [originalname |-> <<"a.pdf">>, mimetype |-> "application/pdf"]
TxtFile == [originalname |-> <<"b.txt">>, mimetype |-> "text/plain"]
Files   == {PdfFile, TxtFile}

\* The content of multipart field `pdf` of a POST /upload/pdf request: no
\* file, or one file.  upload.single("pdf") sets req.file from it.
UploadRequests == {[pdf |-> <<>>]} \cup {[pdf |-> <<f>>] : f \in Files}

\* req.query of a GET /chat request: `message` absent, empty, whitespace
\* only, or with text.
ChatRequests ==
  {[query |-> [m \in {} |-> <<>>]]} \cup
  {[query |-> [message |-> q]] : q \in {<<>>, <<" ">>, <<"a">>, <<" ", "b">>}}

\* error.message of an exception thrown by an external call, as its tokens.
ErrorMessages ==
  { <<"other">>, <<"quota">>, <<"rate limit">>, <<"API key">>,
    <<"authentication">>, <<"model", "loading">>, <<"connect ECONNREFUSED">>,
    <<"model", "not found">>, <<"ENOENT">> }

\* No generation has been recorded.
NoGeneration == [echoed |-> FALSE, answer |-> <<>>, recorded |-> FALSE]

\* Text the generation backend answers with.
LlmTexts == { <<"x">>, <<"p", "Answer:", " ", "x", " ">> }

VARIABLES
  variant,   \* which server file runs: index.js (gemini), hf, ollama
  queue,     \* jobs of "file-upload-queue", in the order they were added
  index,     \* points of the Qdrant collection "langchainjs-testing"
  uploads,   \* the POST /upload/pdf exchanges so far: request and response
  chat,      \* the latest GET /chat exchange: request, calls made, response
  health,    \* the latest GET /health exchange: error thrown, response
  message,   \* ChatComponent state: the text of the input field
  messages,  \* ChatComponent state: the turns of the conversation
  isLoading, \* ChatComponent state: a request is being waited for
  fetching,  \* ChatComponent: the fetch calls that have not settled yet
  uploadedFiles, \* FileUploadComponent state: the entries of the file list
  uploadCalls,   \* FileUploadComponent: the calls of uploadFile so far
  generated      \* what the generation backend produced for the latest chat

\* The state of the chat component of the client.
clientVars == <<message, messages, isLoading, fetching>>

\* The state of the upload component of the client.
uploadVars == <<uploadedFiles, uploadCalls>>

vars == <<variant, queue, index, uploads, chat, health, clientVars,
          uploadVars, generated>>


\* ----------------------------------------------------------------- strings

\* String.prototype.includes(s), s one token.
Includes(str, s) == \E i \in DOMAIN str : str[i] = s

\* String.prototype.toLowerCase on the tokens that occur.
ToLowerCase(str) ==
  [i \in DOMAIN str |-> IF str[i] = "Answer:" THEN "answer:" ELSE str[i]]

\* String.prototype.lastIndexOf(s): the last position of token s, or -1.
\* Positions count from 0 as in JavaScript.
LastIndexOf(str, s) ==
  IF Includes(str, s)
  THEN (CHOOSE i \in DOMAIN str :
          str[i] = s /\ \A j \in DOMAIN str : str[j] = s => j <= i) - 1
  ELSE -1

\* String.prototype.trim(): leading and trailing whitespace removed.
RECURSIVE TrimStart(_)
TrimStart(str) ==
  IF str # <<>> /\ Head(str) = " " THEN TrimStart(Tail(str)) ELSE str

RECURSIVE TrimEnd(_)
TrimEnd(str) ==
  IF str # <<>> /\ str[Len(str)] = " "
  THEN TrimEnd(SubSeq(str, 1, Len(str) - 1))
  ELSE str

Trim(str) == TrimEnd(TrimStart(str))

\* text.substring(0, end) of the text of a chunk: the whole text if it is
\* not longer than `end` characters, else its first `end` characters, which
\* are whole blocks and then the first part of a block.
Substring(text, end) ==
  IF Len(text) * BlockChars <= end THEN text
  ELSE SubSeq(text, 1, end \div BlockChars)
       \o (IF end % BlockChars = 0 THEN <<>> ELSE <<"w (cut)">>)

\* JSON.stringify of an object with string fields, as the sequence of its
\* key/value pairs, and JSON.parse back to an object.
JSONstringify(obj, keys) == [i \in DOMAIN keys |-> <<keys[i], obj[keys[i]]>>]

JSONparse(text) ==
  [k \in {text[i][1] : i \in DOMAIN text} |->
     text[CHOOSE i \in DOMAIN text : text[i][1] = k /\
            \A j \in DOMAIN text : text[j][1] = k => j <= i][2]]

\* ------------------------------------------------------------ POST /upload

\* multer.diskStorage: destination "uploads/", filename
\* `${uniqueSuffix}-${file.originalname}`; the suffix (Date.now() and a random
\* number) is modelled by the number of the request, which no two share.
Storage(n, file) ==
  [originalname |-> file.originalname,
   destination  |-> <<"uploads/">>,
   path         |-> <<"uploads/", ToString(n), "-">> \o file.originalname]

\* upload.single("pdf"): req.file is the stored file of field `pdf`, if any.
\* No fileFilter is configured: a file of any mimetype is stored.
ReqFile(n, req) == [i \in DOMAIN req.pdf |-> Storage(n, req.pdf[i])]

\* The job data the handler passes to queue.add.
JobData(file) ==
  JSONstringify([filename    |-> file.originalname,
                 destination |-> file.destination,
                 path        |-> file.path],
                <<"filename", "destination", "path">>)

\* failedReason of a job that has not failed.
NoError == [name |-> "", message |-> <<>>]

\* new job of the queue, as queue.add("file-ready", data) creates it: no
\* options, so BullMQ's defaults (attempts: 1).  splitDocs and stored count
\* the chunks the processor has split and written; caught is the message of
\* the error its catch block caught, failedReason the error it failed with.
NewJob(data) ==
  [name |-> "file-ready", data |-> data, state |-> "waiting",
   attemptsMade |-> 0, splitDocs |-> 0, stored |-> 0,
   caught |-> <<>>, failedReason |-> NoError]

\* app.post("/upload/pdf"): the response, and the queue after it.
\* reqFile is req.file as a sequence of length 0 (undefined) or 1; brokerUp
\* says whether queue.add reaches the broker.
UploadResponse(reqFile, brokerUp) ==
  IF reqFile = <<>>
  THEN \* req.file.originalname throws a TypeError inside the try block
       [status |-> 500, body |-> [error |-> <<"Failed to upload file">>]]
  ELSE IF ~brokerUp
  THEN [status |-> 500, body |-> [error |-> <<"Failed to upload file">>]]
  ELSE [status |-> 200, body |-> [message |-> <<"PDF uploaded successfully">>]]

UploadQueue(q, reqFile, brokerUp) ==
  IF reqFile # <<>> /\ brokerUp
  THEN Append(q, NewJob(JobData(reqFile[1])))
  ELSE q

UploadPdf(req, brokerUp) ==
  LET n == Len(uploads) + 1
      reqFile == ReqFile(n, req)
  IN  /\ Len(uploads) < MaxUploads
      /\ queue' = UploadQueue(queue, reqFile, brokerUp)
      /\ uploads' = Append(uploads,
                      [req |-> req, res |-> UploadResponse(reqFile, brokerUp)])
      /\ UNCHANGED <<variant, index, chat, health, clientVars, uploadVars,
                 generated>>

\* -------------------------------------------------------------- embeddings

\* Mutant of EmbeddingModel: the worker embeds with the model the README
\* names.
MutEmbeddingModelReadme(process) ==
  IF process = "worker" THEN "text-embedding-3-small" ELSE "text-embedding-004"

\* The model of the GoogleGenerativeAIEmbeddings each process constructs: the
\* worker, and the chat handler of each server variant.
EmbeddingModel(process) ==
  CASE process = "worker" -> "text-embedding-004"
    [] process = "gemini" -> "text-embedding-004"
    [] process = "hf"     -> "text-embedding-004"
    [] process = "ollama" -> "text-embedding-004"

\* The embedding of a text: its length in words stands for the vector.
Embed(model, text) == [model |-> model, vector |-> Len(text)]

\* The two halves of the handler around `await queue.add(...)`.  The queue
\* lives in the broker (Redis at localhost:6379), which the worker, another
\* process, polls: the job is in the queue from the moment the broker has
\* stored it, and the promise of queue.add settles in the server after that.

\* The response of a request whose handler has not returned yet.
Awaiting == [status |-> 0, body |-> [m \in {} |-> <<>>]]

\* The handler calls queue.add and awaits it: the broker stores the job, or
\* is not reached.
QueueAdd(req, brokerUp) ==
  LET n == Len(uploads) + 1
      reqFile == ReqFile(n, req)
  IN  /\ Len(uploads) < MaxUploads
      /\ reqFile # <<>>
      /\ queue' = UploadQueue(queue, reqFile, brokerUp)
      /\ uploads' = Append(uploads,
                      [req |-> req, res |-> Awaiting, brokerUp |-> brokerUp])
      /\ UNCHANGED <<variant, index, chat, health, clientVars, uploadVars,
                 generated>>

\* queue.add settles in the handler, which sends the response.
UploadReturn(u) ==
  /\ u \in DOMAIN uploads
  /\ uploads[u].res = Awaiting
  /\ uploads' = [uploads EXCEPT ![u] =
                   [req |-> @.req,
                    res |-> UploadResponse(ReqFile(u, @.req), @.brokerUp)]]
  /\ UNCHANGED <<variant, queue, index, chat, health, clientVars, uploadVars,
                 generated>>

\* ------------------------------------------------------------------ worker

\* The identifiers bound where the processor's catch block runs: `data`,
\* `loader`, `docs`, ... are const declarations of the try block and are not
\* in scope there (the file is an ES module: no global `data` either).
CatchScope == {"job", "error", "worker"}

\* The error a job fails with: what the catch block of the processor throws
\* for a caught error with message `message`.
CatchBlock(errorMessage, job) ==
  IF Includes(errorMessage, "quota")
  THEN [name |-> "Error",
        message |-> <<"Google API quota exceeded. Please try again later.">>]
  ELSE IF Includes(errorMessage, "API key")
  THEN [name |-> "Error",
        message |-> <<"Invalid Google API key. Please check your configuration.">>]
  ELSE IF Includes(errorMessage, "ENOENT")
  THEN IF "data" \in CatchScope
       THEN [name |-> "Error",
             message |-> <<"PDF file not found: ">> \o JSONparse(job.data).path]
       ELSE \* evaluating `data?.path` throws before new Error is built
            [name |-> "ReferenceError", message |-> <<"data is not defined">>]
  ELSE [name |-> "Error", message |-> <<"Failed to process PDF: ">> \o errorMessage]

\* Messages of the errors the external calls of each step can throw:
\* loader.load() (file missing, parse failure), then embedding and upsert
\* inside vectorStore.addDocuments.
Throwable(state) ==
  IF state = "load"
  THEN { <<"ENOENT">> \o <<"no such file">>, <<"other">> }
  ELSE { <<"quota">>, <<"API key">>, <<"other">> }

\* Mutant of Active: a job counts against the limit only while it loads.
MutActiveLoading(q) == {j \in DOMAIN q : q[j].state = "load"}

\* The jobs the worker is processing: those its processor was called with
\* and has neither returned nor thrown for.
Active(q) == {j \in DOMAIN q : q[j].state \in {"load", "store"}}

\* Chunk n of the PDF at `path`, as the loader and the splitter produce it
\* (chunk n is n words long, of page n).
SplitDoc(path, n) ==
  [pageContent |-> [i \in 1..n |-> "w"],
   metadata    |-> [source |-> path, loc |-> [pageNumber |-> n]]]

\* The point vectorStore.addDocuments writes for chunk n of job j: Qdrant
\* gives every point written an id of its own.
Point(j, job, n) ==
  [id  |-> <<j, job.attemptsMade, n>>,
   doc |-> SplitDoc(JSONparse(job.data).path, n),
   embedding |-> Embed(EmbeddingModel("worker"),
                       SplitDoc(JSONparse(job.data).path, n).pageContent)]

\* The worker takes the oldest waiting job and calls the processor with it.
ProcessorStart(j) ==
  /\ j \in DOMAIN queue
  /\ queue[j].state = "waiting"
  /\ \A i \in DOMAIN queue : queue[i].state = "waiting" => j <= i
  /\ Cardinality(Active(queue)) < WorkerConcurrency
  /\ queue' = [queue EXCEPT ![j].state = "load",
                            ![j].attemptsMade = @ + 1]
  /\ UNCHANGED <<variant, index, uploads, chat, health, clientVars, uploadVars,
                 generated>>

\* loader.load(), splitDocuments and fromExistingCollection succeed: the PDF
\* at data.path splits into n chunks.
LoadAndSplit(j, n) ==
  /\ j \in DOMAIN queue
  /\ queue[j].state = "load"
  /\ queue' = [queue EXCEPT ![j].state = "store", ![j].splitDocs = n]
  /\ UNCHANGED <<variant, index, uploads, chat, health, clientVars, uploadVars,
                 generated>>

\* vectorStore.addDocuments(splitDocs) stores the next chunk.
AddDocument(j) ==
  /\ j \in DOMAIN queue
  /\ queue[j].state = "store"
  /\ queue[j].stored < queue[j].splitDocs
  /\ index' = index \cup {Point(j, queue[j], queue[j].stored + 1)}
  /\ queue' = [queue EXCEPT ![j].stored = @ + 1]
  /\ UNCHANGED <<variant, uploads, chat, health, clientVars, uploadVars,
                 generated>>

\* addDocuments has returned: the processor returns its result.
ProcessorReturn(j) ==
  /\ j \in DOMAIN queue
  /\ queue[j].state = "store"
  /\ queue[j].stored = queue[j].splitDocs
  /\ queue' = [queue EXCEPT ![j].state = "completed"]
  /\ UNCHANGED <<variant, index, uploads, chat, health, clientVars, uploadVars,
                 generated>>

\* Mutant of AfterThrow: a failed job is always retried.
MutAfterThrowRetries(job) == "waiting"

\* Mutant of AfterThrow: the job is put aside for a retry that never comes.
MutAfterThrowDelayed(job) == "delayed"

\* Mutant of AfterThrow: the job was added with attempts: 3.
MutAfterThrowThreeAttempts(job) ==
  IF job.attemptsMade < 3 THEN "waiting" ELSE "failed"

\* What BullMQ does with a job whose processor threw: failed once its
\* attempts are used up, back to waiting otherwise.
AfterThrow(job) ==
  IF job.attemptsMade < DefaultAttempts THEN "waiting" ELSE "failed"

\* Mutant of CatchIndex: the catch block deletes the points of the job.
MutCatchIndexRollsBack(idx, j) == {p \in idx : p.id[1] # j}

\* The collection after the catch block ran for job j: the block logs,
\* classifies the error and rethrows; it makes no call to the vector store.
CatchIndex(idx, j) == idx

\* An external call of the processor throws; the catch block rethrows.
ProcessorThrow(j, errorMessage) ==
  /\ j \in DOMAIN queue
  /\ queue[j].state \in {"load", "store"}
  /\ errorMessage \in Throwable(queue[j].state)
  /\ queue' = [queue EXCEPT
       ![j].state = AfterThrow(queue[j]),
       ![j].caught = errorMessage,
       ![j].failedReason = CatchBlock(errorMessage, queue[j])]
  /\ index' = CatchIndex(index, j)
  /\ UNCHANGED <<variant, uploads, chat, health, clientVars, uploadVars,
                 generated>>

\* --------------------------------------------------------------- GET /chat

\* Distance of two embeddings (cosine distance in Qdrant).
Distance(a, b) ==
  IF a.vector >= b.vector THEN a.vector - b.vector ELSE b.vector - a.vector

\* The similarity search: the n points of `rest` nearest to embedding e,
\* nearest first.  Points at equal distance come in either order.
RECURSIVE Nearest(_, _, _)
Nearest(e, rest, n) ==
  IF n = 0 \/ rest = {} THEN {<<>>}
  ELSE LET d(p) == Distance(e, p.embedding)
           first == {p \in rest : \A q \in rest : d(p) <= d(q)}
       IN  UNION {{<<p.doc>> \o s : s \in Nearest(e, rest \ {p}, n - 1)} :
                    p \in first}

\* retriever.invoke(userQuery) against the points `idx`: the query is
\* embedded and the k nearest points come back as documents.
Retrieve(embeddings, userQuery, idx, k) ==
  Nearest(Embed(embeddings, userQuery), idx, k)

\* Mutant of Context: each chunk is cut as the source list of the client
\* cuts it.
RECURSIVE MutContextTruncated(_, _)
MutContextTruncated(relevantDocs, i) ==
  IF i > Len(relevantDocs) THEN <<>>
  ELSE (IF i > 1 THEN <<"---">> ELSE <<>>)
       \o <<"Document ", ToString(i), ":">>
       \o Substring(relevantDocs[i].pageContent, DisplayChars)
       \o MutContextTruncated(relevantDocs, i + 1)

\* relevantDocs.map((doc, index) => `Document ${index + 1}:\n${doc.pageContent}`)
\*   .join("\n\n---\n\n")
RECURSIVE Context(_, _)
Context(relevantDocs, i) ==
  IF i > Len(relevantDocs) THEN <<>>
  ELSE (IF i > 1 THEN <<"---">> ELSE <<>>)
       \o <<"Document ", ToString(i), ":">> \o relevantDocs[i].pageContent
       \o Context(relevantDocs, i + 1)

\* The system prompt of index.js and of the Ollama variant.
SystemPrompt(context) ==
  <<"You are a helpful AI assistant", "Instructions:",
    "Context from PDF documents:">> \o context

\* The prompt of the Hugging Face variant.
HfPrompt(context, userQuery) ==
  <<"You are a helpful AI assistant", "Context from PDF documents:">>
  \o context \o <<"Question: ">> \o userQuery
  \o <<"Instructions:", "Answer:">>

\* The argument of llm.invoke in each variant: the chat messages of index.js,
\* or the one prompt string of the Hugging Face and Ollama variants.
LlmInput(v, context, userQuery) ==
  CASE v = "gemini" ->
         << [role |-> "system", content |-> SystemPrompt(context)],
            [role |-> "user", content |-> userQuery] >>
    [] v = "hf" ->
         << [role |-> "prompt", content |-> HfPrompt(context, userQuery)] >>
    [] v = "ollama" ->
         << [role |-> "prompt", content |-> SystemPrompt(context)] >>

\* What llm.invoke resolves to: a chat model's message (index.js), or the
\* text itself (the LLM classes of the other two variants).
LlmResponse(v, text) ==
  IF v = "gemini" THEN [content |-> text] ELSE text

ResponseText(v, response) ==
  IF v = "gemini" THEN response.content ELSE response

\* The Hugging Face variant's clean-up of the response: what follows the
\* last "answer:" (any case), trimmed; substring(answerIndex + 7) skips the
\* 7 characters of that one token.
CleanedResponse(response) ==
  LET answerIndex == LastIndexOf(ToLowerCase(response), "answer:")
  IN  IF answerIndex # -1
      THEN Trim(SubSeq(response, answerIndex + 2, Len(response)))
      ELSE response

ModelName(v) ==
  CASE v = "gemini" -> "gemini-1.5-flash"
    [] v = "hf"     -> "microsoft/DialoGPT-large"
    [] v = "ollama" -> "llama3.1"

\* res.json(...) of a request that succeeded.
SuccessBody(v, response, relevantDocs) ==
  CASE v = "gemini" ->
         [message |-> response.content, sources |-> Len(relevantDocs),
          model |-> ModelName(v)]
    [] v = "hf" ->
         [message |-> CleanedResponse(ResponseText(v, response)),
          sources |-> Len(relevantDocs), model |-> ModelName(v),
          docs |-> [i \in DOMAIN relevantDocs |->
                      [pageContent |-> relevantDocs[i].pageContent,
                       metadata |-> relevantDocs[i].metadata]]]
    [] v = "ollama" ->
         [message |-> ResponseText(v, response),
          sources |-> Len(relevantDocs), model |-> ModelName(v),
          docs |-> [i \in DOMAIN relevantDocs |->
                      [pageContent |-> relevantDocs[i].pageContent,
                       metadata |-> relevantDocs[i].metadata]]]

\* Mutant of ChatCatch: an error that is not a quota error is thrown again
\* and no response is sent.
MutChatCatchRethrows(v, errorMessage) ==
  IF Includes(errorMessage, "quota")
  THEN [status |-> 429,
        body |-> [error |-> <<"API quota exceeded. Please try again later.">>]]
  ELSE [status |-> 0, body |-> [m \in {} |-> <<>>]]

\* Mutant of ChatCatch: a refused connection is answered 502.
MutChatCatchBadGateway(v, errorMessage) ==
  IF Includes(errorMessage, "connect ECONNREFUSED")
  THEN [status |-> 502, body |-> [error |-> <<"Bad gateway">>]]
  ELSE [status |-> 500,
        body |-> [error |-> <<"Failed to process chat request">>,
                  details |-> errorMessage]]

\* The catch block of the chat handler of each variant.
ChatCatch(v, errorMessage) ==
  CASE v = "gemini" ->
         IF Includes(errorMessage, "quota")
         THEN [status |-> 429,
               body |-> [error |-> <<"API quota exceeded. Please try again later.">>]]
         ELSE IF Includes(errorMessage, "API key")
         THEN [status |-> 401,
               body |-> [error |-> <<"Invalid API key. Please check your Google API key.">>]]
         ELSE [status |-> 500,
               body |-> [error |-> <<"Failed to process chat request">>,
                         details |-> errorMessage]]
    [] v = "hf" ->
         IF Includes(errorMessage, "rate limit") \/ Includes(errorMessage, "quota")
         THEN [status |-> 429,
               body |-> [error |-> <<"Hugging Face API rate limit exceeded. Please try again later.">>,
                         details |-> <<"Free tier has limited requests per hour">>]]
         ELSE IF Includes(errorMessage, "API key") \/ Includes(errorMessage, "authentication")
         THEN [status |-> 401,
               body |-> [error |-> <<"Invalid Hugging Face API key. Please check your configuration.">>,
                         details |-> <<"Get your API key from https://huggingface.co/settings/tokens">>]]
         ELSE IF Includes(errorMessage, "model") /\ Includes(errorMessage, "loading")
         THEN [status |-> 503,
               body |-> [error |-> <<"Model is loading. Please try again in a few moments.">>,
                         details |-> <<"Hugging Face models may take time to load on first request">>]]
         ELSE [status |-> 500,
               body |-> [error |-> <<"Failed to process chat request">>,
                         details |-> errorMessage]]
    [] v = "ollama" ->
         IF Includes(errorMessage, "connect ECONNREFUSED")
         THEN [status |-> 503,
               body |-> [error |-> <<"Ollama service is not running. Please start Ollama first.">>,
                         details |-> <<"Run 'ollama serve' in your terminal">>]]
         ELSE IF Includes(errorMessage, "model") /\ Includes(errorMessage, "not found")
         THEN [status |-> 404,
               body |-> [error |-> <<"Model not found. Please pull the model first.">>,
                         details |-> <<"Run 'ollama pull llama3.1' in your terminal">>]]
         ELSE [status |-> 500,
               body |-> [error |-> <<"Failed to process chat request">>,
                         details |-> errorMessage]]

\* The external calls of the chat handler, in the order it makes them.
ChatCalls == <<"fromExistingCollection", "retriever.invoke", "llm.invoke">>

\* Mutant of QueryGiven: only a missing parameter is rejected.
MutQueryGivenPresent(req) == "message" \in DOMAIN req.query

\* `!userQuery` is false: the parameter is present and not the empty string.
QueryGiven(req) ==
  "message" \in DOMAIN req.query /\ req.query.message # <<>>

\* What the external calls of one request do: none throws (at = 0), or call
\* number `at` throws an error with `message`.  The vector store is reached
\* first, the embedding service inside retriever.invoke, then the backend.
NoFault == [at |-> 0, message |-> <<>>]

Faults ==
  {[at |-> 1, message |-> m] : m \in {<<"connect ECONNREFUSED">>, <<"other">>}}
  \cup
  {[at |-> 2, message |-> m] : m \in {<<"quota">>, <<"API key">>, <<"other">>}}
  \cup
  {[at |-> 3, message |-> m] : m \in ErrorMessages}

\* The outcomes of the external calls: all succeed and the backend answers
\* `text`, or one of them throws.
Outcomes ==
  {[fault |-> NoFault, text |-> t] : t \in LlmTexts} \cup
  {[fault |-> f, text |-> <<>>] : f \in Faults}

\* The outcomes of the external calls of a chat request, one error for each
\* call that can throw.
SystemOutcomes ==
  {[fault |-> NoFault, text |-> <<"x">>]} \cup
  {[fault |-> [at |-> i, message |-> <<"other">>], text |-> <<>>] : i \in 1..3}

\* The exchange before any request was made.
NoChat ==
  [req |-> [query |-> [m \in {} |-> <<>>]], calls |-> <<>>, thrown |-> NoFault,
   embeddings |-> "", relevantDocs |-> <<>>, llmInput |-> <<>>,
   res |-> [status |-> 0, body |-> [m \in {} |-> <<>>]]]

\* Mutant of ChatHandler: a request that retrieves no document is answered
\* 404 without asking the backend.
MutChatHandlerNoDocs404(v, req, relevantDocs, fault, text) ==
  IF ~QueryGiven(req)
  THEN [req |-> req, calls |-> <<>>, thrown |-> NoFault, embeddings |-> "",
        relevantDocs |-> <<>>, llmInput |-> <<>>,
        res |-> [status |-> 400,
                 body |-> [error |-> <<"Message query parameter is required">>]]]
  ELSE IF fault.at \notin {1, 2} /\ relevantDocs = <<>>
  THEN [req |-> req, calls |-> SubSeq(ChatCalls, 1, 2), thrown |-> NoFault,
        embeddings |-> EmbeddingModel(v),
        relevantDocs |-> <<>>, llmInput |-> <<>>,
        res |-> [status |-> 404,
                 body |-> [error |-> <<"No relevant documents found">>]]]
  ELSE
    LET made == IF fault.at = 0 THEN ChatCalls ELSE SubSeq(ChatCalls, 1, fault.at)
        docs == IF Len(made) >= 2 /\ fault.at # 2 THEN relevantDocs ELSE <<>>
        input == IF Len(made) >= 3
                 THEN LlmInput(v, Context(docs, 1), req.query.message)
                 ELSE <<>>
    IN  [req |-> req, calls |-> made, thrown |-> fault,
         embeddings |-> EmbeddingModel(v),
         relevantDocs |-> docs, llmInput |-> input,
         res |-> IF fault.at = 0
                 THEN [status |-> 200,
                       body |-> SuccessBody(v, LlmResponse(v, text), docs)]
                 ELSE ChatCatch(v, fault.message)]

\* app.get("/chat"): the exchange of one request, given what the retriever
\* finds (relevantDocs), what the external calls do (fault) and what the
\* backend answers (text).  The exchange records the request, the external
\* calls made, the error thrown by the last of them (if any), the documents
\* retrieved, the argument of llm.invoke and the response.
ChatHandler(v, req, relevantDocs, fault, text) ==
  IF ~QueryGiven(req)
  THEN [req |-> req, calls |-> <<>>, thrown |-> NoFault, embeddings |-> "",
        relevantDocs |-> <<>>, llmInput |-> <<>>,
        res |-> [status |-> 400,
                 body |-> [error |-> <<"Message query parameter is required">>]]]
  ELSE
    LET userQuery == req.query.message
        made == IF fault.at = 0 THEN ChatCalls ELSE SubSeq(ChatCalls, 1, fault.at)
        docs == IF Len(made) >= 2 /\ fault.at # 2 THEN relevantDocs ELSE <<>>
        input == IF Len(made) >= 3
                 THEN LlmInput(v, Context(docs, 1), userQuery)
                 ELSE <<>>
    IN  [req |-> req, calls |-> made, thrown |-> fault,
         embeddings |-> EmbeddingModel(v),
         relevantDocs |-> docs, llmInput |-> input,
         res |-> IF fault.at = 0
                 THEN [status |-> 200,
                       body |-> SuccessBody(v, LlmResponse(v, text), docs)]
                 ELSE ChatCatch(v, fault.message)]

\* The exchanges GET /chat can end in for request req over the collection
\* idx, the external calls behaving as one of `outcomes`.
ChatExchanges(v, req, idx, outcomes) ==
  {ChatHandler(v, req, relevantDocs, o.fault, o.text) :
     relevantDocs \in
       (IF QueryGiven(req)
        THEN Retrieve(EmbeddingModel(v), req.query.message, idx, RetrieverK)
        ELSE {<<>>}),
     o \in outcomes}

\* Mutant of ChatWith: the handler also stores the query in the collection.
MutChatWithStoresQuery(req, outcomes) ==
  /\ chat' \in ChatExchanges(variant, req, index, outcomes)
  /\ index' = index \cup
       (IF QueryGiven(req)
        THEN {[id |-> <<0, 0, 0>>,
               doc |-> [pageContent |-> req.query.message,
                        metadata |-> [source |-> <<"query">>,
                                      loc |-> [pageNumber |-> 0]]],
               embedding |-> Embed(EmbeddingModel(variant), req.query.message)]}
        ELSE {})
  /\ UNCHANGED <<variant, queue, uploads, health, clientVars, uploadVars,
                 generated>>

\* One GET /chat request, the external calls behaving as one of `outcomes`.
ChatWith(req, outcomes) ==
  /\ chat' \in ChatExchanges(variant, req, index, outcomes)
  /\ UNCHANGED <<variant, queue, index, uploads, health, clientVars, uploadVars,
                 generated>>

\* One GET /chat request.
Chat(req) == ChatWith(req, Outcomes)

\* The answers the model behind the backend writes: plain, surrounded by
\* white space, and one that has the word "Answer:" in it.
Answers == { <<"x">>, <<" ", "x", " ">>, <<"the", "Answer:", "x">> }

\* What the backend produces for a prompt: the model's own answer, after
\* the prompt itself when the backend echoes it.
Generations == [echoed : BOOLEAN, answer : Answers, recorded : {TRUE}]

\* The text llm.invoke resolves to for generation g: only the text
\* generation of the Hugging Face variant can return the prompt before the
\* answer.
GeneratedText(v, input, g) ==
  IF v = "hf" /\ g.echoed /\ input # <<>>
  THEN input[1].content \o g.answer
  ELSE g.answer

\* One GET /chat request whose external calls all succeed, the backend
\* producing generation g for the prompt of the request.
ChatGenerated(req, g) ==
  /\ \E exchange \in ChatExchanges(variant, req, index,
                                    {[fault |-> NoFault, text |-> <<>>]}) :
       /\ chat' = ChatHandler(variant, req, exchange.relevantDocs, NoFault,
                              GeneratedText(variant, exchange.llmInput, g))
       /\ generated' = IF exchange.llmInput # <<>> THEN g ELSE NoGeneration
  /\ UNCHANGED <<variant, queue, index, uploads, health, clientVars,
                 uploadVars>>

\* ------------------------------------------------------------- GET /health

\* The exchange before any health request was made.
NoHealth == [thrown |-> <<>>, res |-> [status |-> 0, body |-> [m \in {} |-> <<>>]]]

\* app.get("/health"): llm.invoke("Say 'Hello' if you're working") answers
\* `text`, or throws an error with message `thrown` (<<>>: it does not throw).
HealthHandler(v, thrown, text) ==
  LET response == ResponseText(v, LlmResponse(v, text))
  IN  [thrown |-> thrown,
       res |->
         IF thrown = <<>>
         THEN [status |-> 200,
               body |->
                 CASE v = "gemini" ->
                        [status |-> "healthy", gemini |-> "connected",
                         response |-> response]
                   [] v = "hf" ->
                        [status |-> "healthy", huggingface |-> "connected",
                         model |-> ModelName(v), response |-> response]
                   [] v = "ollama" ->
                        [status |-> "healthy", ollama |-> "connected",
                         model |-> ModelName(v), response |-> response]]
         ELSE [status |-> 500,
               body |->
                 CASE v = "gemini" ->
                        [status |-> "unhealthy", gemini |-> "disconnected",
                         error |-> thrown]
                   [] v = "hf" ->
                        [status |-> "unhealthy", huggingface |-> "disconnected",
                         error |-> thrown,
                         troubleshooting |-> <<"checkApiKey", "getApiKey",
                                               "modelLoading">>]
                   [] v = "ollama" ->
                        [status |-> "unhealthy", ollama |-> "disconnected",
                         error |-> thrown,
                         troubleshooting |-> <<"checkOllamaRunning",
                                               "checkModelInstalled",
                                               "checkPort">>]]]

\* One GET /health request.
Health(thrown) ==
  /\ health' = HealthHandler(variant, thrown, <<"Hello">>)
  /\ UNCHANGED <<variant, queue, index, uploads, chat, clientVars, uploadVars,
                 generated>>

\* ---------------------------------------------------------- chat component

\* Texts typed into the input field.
InputTexts == {<<>>, <<" ">>, <<"a">>, <<" ", "b">>}

\* Mutant of Disabled: the controls stay usable while a request is awaited.
MutDisabledNever == FALSE

\* disabled={isLoading} of the input field, and the isLoading part of the
\* send button's disabled={!message.trim() || isLoading}.
Disabled == isLoading

\* onChange of the input field, which is disabled while isLoading.
SetMessage(text) ==
  /\ ~Disabled
  /\ message' = text
  /\ UNCHANGED <<variant, queue, index, uploads, chat, health,
                 messages, isLoading, fetching, uploadVars, generated>>

\* handleSendChatMessage up to its await: called by the send button
\* (disabled when the trimmed message is empty or isLoading) or by the Enter
\* key of the input field (disabled when isLoading); it returns at once for
\* a blank message.  It appends the user turn, clears the input, sets
\* isLoading and starts the fetch of /chat?message=<message>.
HandleSendChatMessage ==
  /\ ~Disabled
  /\ Trim(message) # <<>>
  /\ Len(messages) < MaxMessages
  /\ messages' = Append(messages, [role |-> "user", content |-> message])
  /\ message' = <<>>
  /\ isLoading' = TRUE
  /\ fetching' = Append(fetching, [query |-> [message |-> message]])
  /\ UNCHANGED <<variant, queue, index, uploads, chat, health, uploadVars,
                 generated>>

\* The assistant turn built from the parsed response body: content is
\* data?.message and documents is data?.docs, each undefined (no field) when
\* the body has no such field.
AssistantMessage(data) ==
  [k \in {"role"}
         \cup (IF "message" \in DOMAIN data THEN {"content"} ELSE {})
         \cup (IF "docs" \in DOMAIN data THEN {"documents"} ELSE {}) |->
     CASE k = "role" -> "assistant"
       [] k = "content" -> data.message
       [] k = "documents" -> data.docs]

\* The text the source list shows for a document of an assistant turn:
\* {doc.pageContent?.substring(0, 150)}...
SourceText(doc) == Substring(doc.pageContent, DisplayChars) \o <<"...">>

\* The turn of the catch block.
ErrorMessage ==
  [role |-> "assistant",
   content |-> <<"Sorry, I encountered an error. Please try again.">>]

\* The fetch settles with the server's response, whatever its status, and
\* res.json() parses it: the assistant turn is appended; finally isLoading
\* is reset.
FetchResolves ==
  /\ fetching # <<>>
  /\ \E exchange \in ChatExchanges(variant, Head(fetching), index,
                                    SystemOutcomes) :
       /\ chat' = exchange
       /\ messages' = Append(messages, AssistantMessage(exchange.res.body))
  /\ fetching' = Tail(fetching)
  /\ isLoading' = FALSE
  /\ UNCHANGED <<variant, queue, index, uploads, health, message,
                 uploadVars, generated>>

\* The fetch rejects (the server is not reached): the catch block appends
\* the fixed error turn; finally isLoading is reset.
FetchRejects ==
  /\ fetching # <<>>
  /\ messages' = Append(messages, ErrorMessage)
  /\ fetching' = Tail(fetching)
  /\ isLoading' = FALSE
  /\ UNCHANGED <<variant, queue, index, uploads, chat, health, message,
                 uploadVars, generated>>

\* -------------------------------------------------- file upload component

\* The progress timer adds 10 every 200 ms, up to 90.
ProgressStep == 10
ProgressCap == 90

Min(a, b) == IF a < b THEN a ELSE b

\* The files the user selects or drops: File objects with name and type.
SelectedFiles == Files

\* newFile of uploadFile.  The entries of the list have no identifier of
\* their own; `upload` is the number of the call of uploadFile that appended
\* the entry (0: none did), kept to tell entries of equal name apart.
NewFile(file, c) ==
  [name |-> file.originalname, status |-> "uploading", progress |-> 0,
   error |-> <<>>, upload |-> c]

\* prev.map(f => cond(f) ? change(f) : f) over the entries named fileName.
MapNamed(files, fileName, onlyUploading, status, progress, error) ==
  [i \in DOMAIN files |->
     IF /\ files[i].name = fileName
        /\ onlyUploading => files[i].status = "uploading"
     THEN [files[i] EXCEPT
             !.status = status,
             !.progress = IF onlyUploading
                          THEN Min(@ + ProgressStep, ProgressCap)
                          ELSE progress,
             !.error = IF error = <<>> THEN @ ELSE error]
     ELSE files[i]]

\* prev.filter(f => f.name !== fileName)
RECURSIVE FilterNamed(_, _)
FilterNamed(files, fileName) ==
  IF files = <<>> THEN <<>>
  ELSE (IF Head(files).name # fileName THEN <<Head(files)>> ELSE <<>>)
       \o FilterNamed(Tail(files), fileName)

\* uploadFile up to its await: the entry is appended, the progress timer is
\* started (setInterval) and the fetch of POST /upload/pdf is started.
UploadFile(file) ==
  /\ Len(uploadCalls) < MaxUploads
  /\ uploadedFiles' = Append(uploadedFiles, NewFile(file, Len(uploadCalls) + 1))
  /\ uploadCalls' = Append(uploadCalls,
                      [file |-> file, timer |-> TRUE, fetch |-> "pending",
                       request |-> 0])
  /\ UNCHANGED <<variant, queue, index, uploads, chat, health, clientVars,
                 generated>>

\* handleFileSelect for one file of the list: a PDF is uploaded, another
\* file gets an entry with the error 'Only PDF files are allowed'.
HandleFileSelect(file) ==
  \/ /\ file.mimetype = "application/pdf"
     /\ UploadFile(file)
  \/ /\ file.mimetype # "application/pdf"
     /\ Len(uploadedFiles) <= MaxUploads
     /\ uploadedFiles' = Append(uploadedFiles,
          [name |-> file.originalname, status |-> "error", progress |-> 0,
           error |-> <<"Only PDF files are allowed">>, upload |-> 0])
     /\ UNCHANGED <<variant, queue, index, uploads, chat, health, clientVars,
                    uploadCalls, generated>>

\* The callback of the timer of call c: every entry with the file's name
\* that is uploading moves on by ProgressStep, up to ProgressCap.
ProgressTick(c) ==
  /\ c \in DOMAIN uploadCalls
  /\ uploadCalls[c].timer
  /\ uploadedFiles' = MapNamed(uploadedFiles, uploadCalls[c].file.originalname,
                               TRUE, "uploading", 0, <<>>)
  /\ UNCHANGED <<variant, queue, index, uploads, chat, health, clientVars,
                 uploadCalls, generated>>

\* The request of call c reaches the server, whose upload handler runs.
UploadRequestHandled(c, brokerUp) ==
  LET n == Len(uploads) + 1
      req == [pdf |-> <<uploadCalls[c].file>>]
      reqFile == ReqFile(n, req)
  IN  /\ c \in DOMAIN uploadCalls
      /\ uploadCalls[c].fetch = "pending"
      /\ uploadCalls[c].request = 0
      /\ Len(uploads) < MaxUploads
      /\ queue' = UploadQueue(queue, reqFile, brokerUp)
      /\ uploads' = Append(uploads,
                      [req |-> req, res |-> UploadResponse(reqFile, brokerUp)])
      /\ uploadCalls' = [uploadCalls EXCEPT ![c].request = n]
      /\ UNCHANGED <<variant, index, chat, health, clientVars, uploadedFiles,
                     generated>>

\* The catch block of uploadFile: every entry with the file's name becomes
\* an error entry.  The timer is not touched: progressInterval is a const
\* of the try block.
UploadCatch(files, file) ==
  MapNamed(files, file.originalname, FALSE, "error", 0,
           <<"Upload failed. Please try again.">>)

\* The fetch of call c resolves with the server's response: the timer is
\* cleared; for an ok response every entry with the file's name becomes a
\* success entry with progress 100, otherwise the catch block runs.
UploadFetchResolves(c) ==
  /\ c \in DOMAIN uploadCalls
  /\ uploadCalls[c].fetch = "pending"
  /\ uploadCalls[c].request # 0
  /\ LET ok == uploads[uploadCalls[c].request].res.status = 200
     IN  /\ uploadCalls' = [uploadCalls EXCEPT
                              ![c].timer = FALSE,
                              ![c].fetch = IF ok THEN "ok" ELSE "notOk"]
         /\ uploadedFiles' =
              IF ok
              THEN MapNamed(uploadedFiles, uploadCalls[c].file.originalname,
                            FALSE, "success", 100, <<>>)
              ELSE UploadCatch(uploadedFiles, uploadCalls[c].file)
  /\ UNCHANGED <<variant, queue, index, uploads, chat, health, clientVars,
                 generated>>

\* The fetch of call c rejects (the server is not reached, or its response
\* is lost): control goes from the await to the catch block, past
\* clearInterval.
UploadFetchRejects(c) ==
  /\ c \in DOMAIN uploadCalls
  /\ uploadCalls[c].fetch = "pending"
  /\ uploadCalls' = [uploadCalls EXCEPT ![c].fetch = "rejected"]
  /\ uploadedFiles' = UploadCatch(uploadedFiles, uploadCalls[c].file)
  /\ UNCHANGED <<variant, queue, index, uploads, chat, health, clientVars,
                 generated>>

\* removeFile, from the X button of an entry named fileName.
RemoveFile(fileName) ==
  /\ \E i \in DOMAIN uploadedFiles : uploadedFiles[i].name = fileName
  /\ uploadedFiles' = FilterNamed(uploadedFiles, fileName)
  /\ UNCHANGED <<variant, queue, index, uploads, chat, health, clientVars,
                 uploadCalls, generated>>

\* retryUpload, from the Retry button of an error entry named fileName: it
\* only removes.
RetryUpload(fileName) ==
  /\ \E i \in DOMAIN uploadedFiles :
       uploadedFiles[i].name = fileName /\ uploadedFiles[i].status = "error"
  /\ uploadedFiles' = FilterNamed(uploadedFiles, fileName)
  /\ UNCHANGED <<variant, queue, index, uploads, chat, health, clientVars,
                 uploadCalls, generated>>

\* The banner "Your PDF has been processed successfully! You can now start
\* chatting about its content." is shown.
ShowsProcessed ==
  \E i \in DOMAIN uploadedFiles : uploadedFiles[i].status = "success"

\* ------------------------------------------------------------ specification

Init ==
  /\ variant \in Variants
  /\ queue = <<>>
  /\ index = {}
  /\ uploads = <<>>
  /\ chat = NoChat
  /\ health = NoHealth
  /\ message = <<>>
  /\ messages = <<>>
  /\ isLoading = FALSE
  /\ fetching = <<>>
  /\ uploadedFiles = <<>>
  /\ uploadCalls = <<>>
  /\ generated = NoGeneration

\* Uploads and the worker: every interleaving of requests and job steps.
Next ==
  \/ \E req \in UploadRequests, brokerUp \in BOOLEAN : UploadPdf(req, brokerUp)
  \/ \E j \in 1..MaxUploads : ProcessorStart(j)
  \/ \E j \in 1..MaxUploads, n \in 1..MaxChunks : LoadAndSplit(j, n)
  \/ \E j \in 1..MaxUploads : AddDocument(j)
  \/ \E j \in 1..MaxUploads : ProcessorReturn(j)
  \/ \E j \in 1..MaxUploads, m \in Throwable("load") \cup Throwable("store") :
       ProcessorThrow(j, m)

Spec == Init /\ [][Next]_vars

\* A PDF of n chunks uploaded and ingested without error, in one step: the
\* upload handler, then the processor from start to return.
Ingest(n) ==
  LET u == Len(uploads) + 1
      reqFile == ReqFile(u, [pdf |-> <<PdfFile>>])
      j == Len(queue) + 1
      job == [NewJob(JobData(reqFile[1])) EXCEPT !.attemptsMade = 1]
  IN  /\ Len(uploads) < MaxUploads
      /\ uploads' = Append(uploads, [req |-> [pdf |-> <<PdfFile>>],
                                     res |-> UploadResponse(reqFile, TRUE)])
      /\ queue' = Append(queue, [job EXCEPT !.state = "completed",
                                            !.splitDocs = n, !.stored = n])
      /\ index' = index \cup {Point(j, job, i) : i \in 1..n}
      /\ UNCHANGED <<variant, chat, health, clientVars, uploadVars,
                 generated>>

\* The chat handler over the collections that ingestion leaves (PDFs of one
\* chunk and of the most chunks).
NextChat ==
  \/ \E n \in {1, MaxChunks} : Ingest(n)
  \/ \E req \in ChatRequests : Chat(req)

SpecChat == Init /\ [][NextChat]_vars

\* Server and worker together: uploads of a PDF (the broker reachable or
\* not), the steps of the jobs (one chunk each), chat and health requests,
\* in every interleaving.
NextSystem ==
  \/ \E brokerUp \in BOOLEAN : UploadPdf([pdf |-> <<PdfFile>>], brokerUp)
  \/ \E j \in 1..MaxUploads : ProcessorStart(j)
  \/ \E j \in 1..MaxUploads : LoadAndSplit(j, 1)
  \/ \E j \in 1..MaxUploads : AddDocument(j)
  \/ \E j \in 1..MaxUploads : ProcessorReturn(j)
  \/ \E j \in 1..MaxUploads, m \in Throwable("load") \cup Throwable("store") :
       ProcessorThrow(j, m)
  \/ ChatWith([query |-> [message |-> <<"a">>]], SystemOutcomes)
  \/ \E thrown \in {<<>>, <<"other">>} : Health(thrown)

SpecSystem == Init /\ [][NextSystem]_vars

\* The upload handler in its two halves, with the worker: the worker polls
\* the broker while the handler awaits queue.add.
NextEnqueue ==
  \/ \E brokerUp \in BOOLEAN : QueueAdd([pdf |-> <<PdfFile>>], brokerUp)
  \/ \E u \in 1..MaxUploads : UploadReturn(u)
  \/ \E j \in 1..MaxUploads : ProcessorStart(j)
  \/ \E j \in 1..MaxUploads : LoadAndSplit(j, 1)
  \/ \E j \in 1..MaxUploads : AddDocument(j)
  \/ \E j \in 1..MaxUploads : ProcessorReturn(j)
  \/ \E j \in 1..MaxUploads : ProcessorThrow(j, <<"other">>)

SpecEnqueue == Init /\ [][NextEnqueue]_vars

\* The chat component against the server, over the collections that
\* ingestion of one-chunk PDFs leaves.
NextClient ==
  \/ Ingest(1)
  \/ \E text \in InputTexts : SetMessage(text)
  \/ HandleSendChatMessage
  \/ FetchResolves
  \/ FetchRejects

SpecClient == Init /\ [][NextClient]_vars

\* The chat handler against a backend that may echo the prompt, over the
\* collections that ingestion of one-chunk PDFs leaves.
NextGenerated ==
  \/ Ingest(1)
  \/ \E req \in ChatRequests, g \in Generations : ChatGenerated(req, g)

SpecGenerated == Init /\ [][NextGenerated]_vars

\* Uploads of a PDF and the worker, the worker scheduled fairly: a waiting
\* job that the worker can take is taken, and an awaited call of a job in
\* process settles (it resolves, or it throws: a missing file or another
\* error while loading, another error while storing).
NextFair ==
  \/ \E brokerUp \in BOOLEAN : UploadPdf([pdf |-> <<PdfFile>>], brokerUp)
  \/ \E j \in 1..MaxUploads : ProcessorStart(j)
  \/ \E j \in 1..MaxUploads, n \in 1..MaxChunks : LoadAndSplit(j, n)
  \/ \E j \in 1..MaxUploads : AddDocument(j)
  \/ \E j \in 1..MaxUploads : ProcessorReturn(j)
  \/ \E j \in 1..MaxUploads, m \in Throwable("load") \cup {<<"other">>} :
       ProcessorThrow(j, m)

\* The steps of the processor for job j after it was called.
ProcessorStep(j) ==
  \/ \E n \in 1..MaxChunks : LoadAndSplit(j, n)
  \/ AddDocument(j)
  \/ ProcessorReturn(j)
  \/ \E m \in Throwable("load") \cup {<<"other">>} : ProcessorThrow(j, m)

SpecFair ==
  /\ Init
  /\ [][NextFair]_vars
  /\ \A j \in 1..MaxUploads :
       WF_vars(ProcessorStart(j)) /\ WF_vars(ProcessorStep(j))

\* The upload component against the server and the worker (one chunk for
\* each PDF).
NextUpload ==
  \/ \E file \in SelectedFiles : HandleFileSelect(file)
  \/ \E c \in 1..MaxUploads : ProgressTick(c)
  \/ \E c \in 1..MaxUploads, brokerUp \in BOOLEAN :
       UploadRequestHandled(c, brokerUp)
  \/ \E c \in 1..MaxUploads : UploadFetchResolves(c)
  \/ \E c \in 1..MaxUploads : UploadFetchRejects(c)
  \/ \E file \in SelectedFiles : RemoveFile(file.originalname)
  \/ \E file \in SelectedFiles : RetryUpload(file.originalname)
  \/ \E j \in 1..MaxUploads : ProcessorStart(j)
  \/ \E j \in 1..MaxUploads : LoadAndSplit(j, 1)
  \/ \E j \in 1..MaxUploads : AddDocument(j)
  \/ \E j \in 1..MaxUploads : ProcessorReturn(j)
  \/ \E j \in 1..MaxUploads : ProcessorThrow(j, <<"other">>)

SpecUpload == Init /\ [][NextUpload]_vars

\* One job more than the worker processes at a time.
PoolJobs == WorkerConcurrency + 1

\* The queue and the exchanges after n uploads of a PDF were answered 200.
RECURSIVE UploadedQueue(_)
UploadedQueue(n) ==
  IF n = 0 THEN <<>>
  ELSE UploadQueue(UploadedQueue(n - 1),
                   ReqFile(n, [pdf |-> <<PdfFile>>]), TRUE)

UploadedExchanges(n) ==
  [u \in 1..n |->
     [req |-> [pdf |-> <<PdfFile>>],
      res |-> UploadResponse(ReqFile(u, [pdf |-> <<PdfFile>>]), TRUE)]]

\* The worker starts on a queue that PoolJobs uploads have filled.
InitPool ==
  /\ variant = "gemini"
  /\ queue = UploadedQueue(PoolJobs)
  /\ index = {}
  /\ uploads = UploadedExchanges(PoolJobs)
  /\ chat = NoChat
  /\ health = NoHealth
  /\ message = <<>>
  /\ messages = <<>>
  /\ isLoading = FALSE
  /\ fetching = <<>>
  /\ uploadedFiles = <<>>
  /\ uploadCalls = <<>>
  /\ generated = NoGeneration

\* The worker on that queue: every job has one chunk, and its load or its
\* store may throw.
NextPool ==
  \/ \E j \in 1..PoolJobs : ProcessorStart(j)
  \/ \E j \in 1..PoolJobs : LoadAndSplit(j, 1)
  \/ \E j \in 1..PoolJobs : AddDocument(j)
  \/ \E j \in 1..PoolJobs : ProcessorReturn(j)
  \/ \E j \in 1..PoolJobs : ProcessorThrow(j, <<"other">>)

SpecPool == InitPool /\ [][NextPool]_vars

\* ------------------------------------------------------------------ claims

\* The path multer gave the file of upload u (the empty path if it had none).
UploadPath(u) ==
  IF uploads[u].req.pdf = <<>> THEN <<>>
  ELSE <<"uploads/", ToString(u), "-">> \o uploads[u].req.pdf[1].originalname

\* The jobs of the queue that carry the file of upload u.
JobsOfUpload(u) ==
  {j \in DOMAIN queue :
     \E i \in DOMAIN queue[j].data :
       queue[j].data[i] = <<"path", UploadPath(u)>>}

\* The points of the collection that job j wrote, and the calls of the
\* processor (attempts) that wrote them.
PointsOfJob(j) == {p \in index : p.id[1] = j}
ChunkSetsOfJob(j) == {p.id[2] : p \in PointsOfJob(j)}

\* C1: every upload answered 200 has exactly one job in the queue; that job
\* was handed to the processor at most once, and exactly once when it is no
\* longer waiting; the collection holds at most one chunk set of it, and
\* exactly its split chunks, once each, when the job has completed.
C1_OneJobOneChunkSet ==
  \A u \in DOMAIN uploads :
    uploads[u].res.status = 200 =>
      /\ Cardinality(JobsOfUpload(u)) = 1
      /\ \A j \in JobsOfUpload(u) :
           /\ queue[j].attemptsMade <= 1
           /\ queue[j].state # "waiting" => queue[j].attemptsMade = 1
           /\ Cardinality(ChunkSetsOfJob(j)) <= 1
           /\ queue[j].state = "completed" =>
                /\ Cardinality(ChunkSetsOfJob(j)) = 1
                /\ {p.id[3] : p \in PointsOfJob(j)} = 1..queue[j].splitDocs
                /\ Cardinality(PointsOfJob(j)) = queue[j].splitDocs

\* Two uploads were answered 200 and the jobs of both have completed and
\* left their chunks in the collection.
C1_Witness ==
  /\ Len(uploads) >= 2
  /\ \A u \in DOMAIN uploads :
       /\ uploads[u].res.status = 200
       /\ \E j \in JobsOfUpload(u) :
            queue[j].state = "completed" /\ PointsOfJob(j) # {}

\* C6: POST /upload/pdf answers 200 {message: "uploaded"} exactly when the
\* job was added to the queue, and 500 {error} in every other case; a 500
\* means no job of that request is in the queue.
C6_UploadResponse ==
  \A u \in DOMAIN uploads :
    LET res == uploads[u].res
    IN  \/ /\ JobsOfUpload(u) # {}
           /\ res.status = 200
           /\ DOMAIN res.body = {"message"}
           /\ res.body.message = <<"uploaded">>
        \/ /\ JobsOfUpload(u) = {}
           /\ res.status = 500
           /\ DOMAIN res.body = {"error"}

\* C7: a file that is not a PDF is never enqueued: no job of the queue
\* carries the file of an upload whose mimetype is not application/pdf.
C7_NonPdfNeverEnqueued ==
  \A u \in DOMAIN uploads :
    (uploads[u].req.pdf # <<>>
       /\ uploads[u].req.pdf[1].mimetype # "application/pdf")
    => JobsOfUpload(u) = {}

\* C10: a job whose load failed with ENOENT fails with "PDF file not found:
\* <path>", has written nothing to the collection and is not processed again.
C10_MissingFileNotFound ==
  \A j \in DOMAIN queue :
    Includes(queue[j].caught, "ENOENT") =>
      /\ queue[j].state = "failed"
      /\ queue[j].failedReason.message =
           <<"PDF file not found: ">> \o JSONparse(queue[j].data).path
      /\ PointsOfJob(j) = {}
      /\ queue[j].attemptsMade = 1

\* A request has been answered.
Answered == chat.res.status # 0

\* The request's message parameter is missing or the empty string.
MessageMissing(req) ==
  \A k \in DOMAIN req.query : k = "message" => req.query[k] = <<>>

\* The request's message parameter is blank: missing, empty or whitespace.
MessageBlank(req) ==
  \A k \in DOMAIN req.query :
    k = "message" => \A i \in DOMAIN req.query[k] : req.query[k][i] = " "

\* The documents as the response lists them.
DocsOf(relevantDocs) ==
  [i \in DOMAIN relevantDocs |->
     [pageContent |-> relevantDocs[i].pageContent,
      metadata |-> relevantDocs[i].metadata]]

\* C2: a request whose message is missing or empty is answered 400 with an
\* error body, having made no external call (no embedding, no index query,
\* no backend call); and answering it changes neither the queue nor the
\* collection.
C2_MissingMessage400 ==
  /\ [](Answered /\ MessageMissing(chat.req) =>
          /\ chat.res.status = 400
          /\ "error" \in DOMAIN chat.res.body
          /\ chat.calls = <<>>
          /\ chat.llmInput = <<>>)
  /\ [][MessageMissing(chat'.req) /\ chat' # chat =>
          queue' = queue /\ index' = index /\ uploads' = uploads]_vars

\* A request with an empty message was answered 400 while the collection
\* held points and the queue a job.
C2_Witness ==
  /\ chat.res.status = 400
  /\ DOMAIN chat.req.query = {"message"}
  /\ index # {}
  /\ queue # <<>>

\* C3: every successful response, in every variant, is a 200 whose body has
\* both `message` and `docs`, docs being the retrieved chunks as
\* {pageContent, metadata} in retrieval order.
C3_SuccessHasDocs ==
  chat.res.status = 200 =>
    /\ {"message", "docs"} \subseteq DOMAIN chat.res.body
    /\ chat.res.body.docs = DocsOf(chat.relevantDocs)

C5_VariantsSameShape ==
  chat.res.status = 200 =>
    \A v \in Variants : \A text \in LlmTexts :
      LET other == ChatHandler(v, chat.req, chat.relevantDocs, NoFault, text)
      IN  /\ other.calls = chat.calls
          /\ other.relevantDocs = chat.relevantDocs
          /\ other.res.status = chat.res.status
          /\ DOMAIN other.res.body = DOMAIN chat.res.body
          /\ \A f \in DOMAIN chat.res.body \ {"message", "model"} :
               other.res.body[f] = chat.res.body[f]

\* The context block of the prompt handed to the backend is empty: the
\* prompt is the variant's prompt around no document.
EmptyContextSent ==
  /\ chat.llmInput # <<>>
  /\ \/ chat.llmInput[1].content = SystemPrompt(<<>>)
     \/ chat.llmInput[1].content = HfPrompt(<<>>, chat.req.query.message)
  /\ \A i \in DOMAIN chat.llmInput :
       ~ Includes(chat.llmInput[i].content, "Document ")

\* C8: when the retriever returns no chunk for a non-empty query, the handler
\* still calls the backend, with a prompt whose context block is empty, and
\* when the backend answers the response is a 200 with a message and zero
\* sources; the only error such a request can end in is the backend's own.
C8_ZeroChunksStillAnswered ==
  (Answered /\ ~ MessageMissing(chat.req)
     /\ Len(chat.calls) >= 2 /\ chat.thrown.at # 2
     /\ chat.relevantDocs = <<>>) =>
    /\ chat.calls = ChatCalls
    /\ EmptyContextSent
    /\ chat.thrown.at \in {0, 3}
    /\ chat.thrown.at = 0 =>
         /\ chat.res.status = 200
         /\ "message" \in DOMAIN chat.res.body
         /\ chat.res.body.sources = 0

\* A request with text was answered 200 over an empty collection.
C8_Witness ==
  /\ index = {}
  /\ chat.res.status = 200
  /\ chat.relevantDocs = <<>>
  /\ chat.req.query.message = <<"a">>

\* C9: a blank query (missing, empty or whitespace only) is answered 400
\* and makes no retrieval and no generation call.
C9_BlankQueryRejected ==
  (Answered /\ MessageBlank(chat.req)) =>
    /\ chat.res.status = 400
    /\ chat.calls = <<>>

\* C11: every error of an external call in the upload, chat and health
\* handlers and in the job processor ends in a structured outcome: a JSON
\* error response, or a failed job with the error the `failed` event
\* reports.  Every request is answered, also after such an error, and after
\* a job has failed the worker can still start a waiting job.
C11_ErrorsCaughtAtBoundary ==
  /\ [](/\ \A u \in DOMAIN uploads :
             /\ uploads[u].res.status \in {200, 500}
             /\ uploads[u].res.status = 500 =>
                  DOMAIN uploads[u].res.body = {"error"}
        /\ chat.thrown.at # 0 =>
             chat.res.status >= 400 /\ "error" \in DOMAIN chat.res.body
        /\ health.thrown # <<>> =>
             /\ health.res.status = 500
             /\ "error" \in DOMAIN health.res.body
             /\ health.res.body.error = health.thrown
        /\ \A j \in DOMAIN queue :
             queue[j].caught # <<>> =>
               /\ queue[j].state = "failed"
               /\ queue[j].failedReason.name # ""
               /\ queue[j].failedReason.message # <<>>
        /\ ((\E j \in DOMAIN queue : queue[j].state = "failed")
             /\ (\E j \in DOMAIN queue : queue[j].state = "waiting"))
           => ENABLED (\E j \in 1..MaxUploads : ProcessorStart(j)))
  /\ [][/\ chat' # chat => chat'.res.status # 0
        /\ health' # health => health'.res.status # 0
        /\ Len(uploads') > Len(uploads) =>
             uploads'[Len(uploads')].res.status # 0]_vars

\* After the first job failed the second one completed, and a chat request
\* and a health request whose backend call threw were answered 500.
C11_Witness ==
  /\ Len(queue) >= 2
  /\ queue[1].state = "failed"
  /\ queue[2].state = "completed"
  /\ chat.thrown.at = 3 /\ chat.res.status = 500
  /\ health.thrown # <<>> /\ health.res.status = 500

\* The jobs whose PDF the retrieved document doc is a chunk of.
JobsOfDoc(doc) ==
  {j \in DOMAIN queue : JSONparse(queue[j].data).path = doc.metadata.source}

\* C12: a chat request never retrieves a chunk of a document whose job has
\* not completed: every document of the latest retrieval belongs to a job
\* that is completed (completed is final, so a job that is not completed now
\* was not completed when the request was answered).
C12_NoChunkBeforeCompletion ==
  \A i \in DOMAIN chat.relevantDocs :
    \A j \in JobsOfDoc(chat.relevantDocs[i]) : queue[j].state = "completed"

\* The jobs that were handed to the processor and have not ended.
BeingProcessed ==
  {j \in DOMAIN queue : queue[j].state \notin {"waiting", "completed", "failed"}}

\* C13: at most WorkerConcurrency (5) jobs are being processed at any
\* moment, and a waiting job is handed to the processor only in a state
\* where fewer than 5 are: while 5 are being processed a sixth job stays
\* waiting until one of them has completed or failed.
C13_ConcurrencyLimit ==
  /\ [](Cardinality(BeingProcessed) <= 5)
  /\ [][\A j \in DOMAIN queue :
          (queue[j].state = "waiting" /\ queue'[j].state # "waiting")
          => Cardinality(BeingProcessed) < 5]_vars

\* Five jobs are being processed and the sixth is waiting.
C13_Witness ==
  /\ Cardinality(BeingProcessed) = 5
  /\ Len(queue) >= 6
  /\ queue[6].state = "waiting"

\* C14: a job whose processor threw is failed, with the error the `failed`
\* event reports, after exactly one call of the processor; no job is handed
\* to the processor twice, and a failed job never changes again.
C14_FailedNotRetried ==
  /\ [](\A j \in DOMAIN queue :
          /\ queue[j].attemptsMade <= 1
          /\ queue[j].caught # <<>> =>
               /\ queue[j].state = "failed"
               /\ queue[j].attemptsMade = 1
               /\ queue[j].failedReason.message # <<>>)
  /\ [][\A j \in DOMAIN queue :
          queue[j].state = "failed" => queue'[j] = queue[j]]_vars

\* The first job failed while storing, and the second job was processed
\* after that.
C14_Witness ==
  /\ Len(queue) >= 2
  /\ queue[1].state = "failed"
  /\ queue[1].stored > 0
  /\ queue[2].state \in {"store", "completed", "failed"}

\* C15: handling a GET /chat request, whatever its outcome, changes neither
\* the points of the collection nor the queue.
C15_ChatOnlyReads ==
  [][chat' # chat => index' = index /\ queue' = queue]_vars

\* A request was answered with RetrieverK documents out of a collection
\* that holds more.
C15_Witness ==
  /\ chat.res.status = 200
  /\ Len(chat.relevantDocs) = RetrieverK
  /\ Cardinality(index) > RetrieverK
  /\ queue # <<>>

Contains(str, sub) ==
  \E k \in 0..(Len(str) - Len(sub)) : SubSeq(str, k + 1, k + Len(sub)) = sub

\* C17: what a chat handler hands to llm.invoke contains the retrieved
\* context and the text of the user's query, in every variant.
C17_PromptHasQuestion ==
  chat.llmInput # <<>> =>
    /\ \E i \in DOMAIN chat.llmInput :
         Contains(chat.llmInput[i].content, Context(chat.relevantDocs, 1))
    /\ \E i \in DOMAIN chat.llmInput :
         Contains(chat.llmInput[i].content, chat.req.query.message)

\* C18: a job is handed to the processor only after the upload handler's
\* queue.add has returned successfully (the request was answered 200), and
\* no job of a request whose queue.add failed is in the queue.
C18_VisibleAfterEnqueueReturns ==
  \A u \in DOMAIN uploads :
    /\ \A j \in JobsOfUpload(u) :
         queue[j].attemptsMade > 0 => uploads[u].res.status = 200
    /\ uploads[u].res.status = 500 => JobsOfUpload(u) = {}

\* The turn t carries the answer of a successful response or the fixed
\* error text.
AnswerOrErrorText(t) ==
  /\ "content" \in DOMAIN t
  /\ t.content # <<>>

\* C19: the history is append-only: every step leaves the earlier turns as
\* a prefix and adds at most one turn; a send appends exactly one user turn
\* with the text sent, and the settling of its request exactly one
\* assistant turn, the answer or the fixed error text; user turns and
\* assistant turns are as many as the sends begun and settled.
C19_HistoryAppendOnly ==
  /\ [][/\ Len(messages') \in {Len(messages), Len(messages) + 1}
        /\ SubSeq(messages', 1, Len(messages)) = messages
        /\ Len(fetching') > Len(fetching) =>
             /\ messages' = Append(messages,
                                   [role |-> "user", content |-> message])
        /\ Len(fetching') < Len(fetching) =>
             /\ Len(messages') = Len(messages) + 1
             /\ messages'[Len(messages')].role = "assistant"
             /\ AnswerOrErrorText(messages'[Len(messages')])]_vars
  /\ [](Cardinality({i \in DOMAIN messages : messages[i].role = "user"})
          = Cardinality({i \in DOMAIN messages : messages[i].role = "assistant"})
            + Len(fetching))

\* Document i of the latest retrieval as the context block labels it.
Labelled(i) ==
  <<"Document ", ToString(i), ":">> \o chat.relevantDocs[i].pageContent

\* The context block of 0 to 3 retrieved documents, written out.
ContextBlock ==
  CASE Len(chat.relevantDocs) = 0 -> <<>>
    [] Len(chat.relevantDocs) = 1 -> Labelled(1)
    [] Len(chat.relevantDocs) = 2 -> Labelled(1) \o <<"---">> \o Labelled(2)
    [] Len(chat.relevantDocs) = 3 ->
         Labelled(1) \o <<"---">> \o Labelled(2) \o <<"---">> \o Labelled(3)

ChunksOfJob(j) == {p.id[3] : p \in PointsOfJob(j)}

\* C21: the write of a job's chunks is neither atomic nor compensated: a
\* job whose write failed after some chunks were stored ends failed, the
\* step that fails it removes no point, and the chunks stored before the
\* failure stay in the collection; no step ever removes a point.
C21_PartialUpsertRemains ==
  /\ [](\A j \in DOMAIN queue :
          queue[j].state = "failed" => ChunksOfJob(j) = 1..queue[j].stored)
  /\ [][/\ index \subseteq index'
        /\ \A j \in DOMAIN queue :
             (queue[j].state = "store" /\ queue'[j].state # "store") =>
               /\ queue'[j].state \in {"completed", "failed"}
               /\ queue'[j].state = "failed" <=> queue'[j].caught # <<>>]_vars

\* A failed job has a strict, non-empty subset of its chunks stored.
C21_Witness ==
  \E j \in DOMAIN queue :
    /\ queue[j].state = "failed"
    /\ ChunksOfJob(j) # {}
    /\ ChunksOfJob(j) # 1..queue[j].splitDocs
    /\ ChunksOfJob(j) \subseteq 1..queue[j].splitDocs
\* The text the backend answered the latest request with.
BackendText == GeneratedText(variant, chat.llmInput, generated)

\* C23: the message of the Hugging Face variant is the backend's answer
\* with only an echoed prompt removed: a text without "answer:" (in any
\* case) is returned unchanged, otherwise the trimmed text after the last
\* "answer:" is returned; and no part of the model's own answer is removed
\* (the message is the model's answer, trimmed or not).
C23_OnlyEchoRemoved ==
  (variant = "hf" /\ chat.res.status = 200 /\ generated.recorded) =>
    /\ ~Includes(ToLowerCase(BackendText), "answer:") =>
         chat.res.body.message = BackendText
    /\ Includes(ToLowerCase(BackendText), "answer:") =>
         \E k \in 1..Len(BackendText) :
           /\ ToLowerCase(BackendText)[k] = "answer:"
           /\ \A l \in (k + 1)..Len(BackendText) :
                ToLowerCase(BackendText)[l] # "answer:"
           /\ chat.res.body.message =
                Trim(SubSeq(BackendText, k + 1, Len(BackendText)))
    /\ chat.res.body.message \in {generated.answer, Trim(generated.answer)}
\* C24: with the worker scheduled fairly, every job added to the queue is
\* eventually taken by the worker and eventually ends completed or failed,
\* and a job that has ended never changes its state again (it reaches one
\* terminal state only): no job stays waiting or in process forever.
C24_EveryJobEnds ==
  /\ \A j \in 1..MaxUploads :
       (j \in DOMAIN queue) ~>
         (/\ j \in DOMAIN queue
          /\ queue[j].attemptsMade >= 1
          /\ queue[j].state \in {"completed", "failed"})
  /\ [][\A j \in DOMAIN queue :
          queue[j].state \in {"completed", "failed"} =>
            queue'[j].state = queue[j].state]_vars

\* Every job that can be added has ended, one completed and one failed.
C24_Witness ==
  /\ Len(queue) = MaxUploads
  /\ \A j \in DOMAIN queue : queue[j].state \in {"completed", "failed"}
  /\ \E j \in DOMAIN queue : queue[j].state = "completed"
  /\ \E j \in DOMAIN queue : queue[j].state = "failed"
\* C25: at most one chat request is in flight: isLoading holds exactly
\* while a request is awaited, no request is started while it holds, a
\* request that settles (answered or thrown) resets it, and the turns of
\* the conversation alternate, user first.
C25_OneRequestInFlight ==
  /\ [](/\ Len(fetching) <= 1
        /\ isLoading <=> fetching # <<>>
        /\ \A i \in DOMAIN messages :
             messages[i].role = IF i % 2 = 1 THEN "user" ELSE "assistant")
  /\ [][/\ Len(fetching') > Len(fetching) => ~isLoading
        /\ Len(fetching') < Len(fetching) => ~isLoading']_vars

\* A request is in flight after an earlier request threw.
C25_Witness ==
  /\ Len(messages) = 3
  /\ messages[2] = ErrorMessage
  /\ isLoading
  /\ Len(fetching) = 1
\* C26: every assistant turn of the conversation has content that is
\* defined and not empty, also when the server answered with an error
\* status and a body {error}.
C26_AssistantContentDefined ==
  \A i \in DOMAIN messages :
    messages[i].role = "assistant" =>
      /\ "content" \in DOMAIN messages[i]
      /\ messages[i].content # <<>>
\* The request the server handled for the upload that appended entry f (0:
\* none), and the jobs of that request.
RequestOfEntry(f) ==
  IF f.upload = 0 THEN 0 ELSE uploadCalls[f.upload].request

\* C22: whenever the upload component shows an entry as success (and with
\* it the banner "Your PDF has been processed successfully! ..."), the
\* ingestion job of that upload has completed and its chunks are in the
\* collection.
C22_SuccessMeansIngested ==
  \A i \in DOMAIN uploadedFiles :
    (ShowsProcessed /\ uploadedFiles[i].status = "success") =>
      /\ RequestOfEntry(uploadedFiles[i]) # 0
      /\ JobsOfUpload(RequestOfEntry(uploadedFiles[i])) # {}
      /\ \A j \in JobsOfUpload(RequestOfEntry(uploadedFiles[i])) :
           /\ queue[j].state = "completed"
           /\ ChunksOfJob(j) = 1..queue[j].splitDocs
           /\ ChunksOfJob(j) # {}

\* The entry of upload c in the list `files`, as a set (empty once removed).
EntryOf(files, c) ==
  {files[i] : i \in {k \in DOMAIN files : files[k].upload = c}}

\* C27: a status change caused by one upload touches only that upload's
\* entry, also between entries of the same name: the status of an entry
\* follows its own request (uploading while it is pending, success after
\* an ok response, error otherwise), a tick of the timer changes one entry
\* at most, and an entry that reached success or error never changes again
\* until it is removed.
C27_OnlyOwnEntry ==
  /\ [](\A i \in DOMAIN uploadedFiles :
          LET f == uploadedFiles[i]
          IN  f.upload # 0 =>
                /\ f.status = "uploading" <=> uploadCalls[f.upload].fetch = "pending"
                /\ f.status = "success" <=> uploadCalls[f.upload].fetch = "ok")
  /\ [][/\ \A c \in DOMAIN uploadCalls :
             \A f \in EntryOf(uploadedFiles, c) :
               f.status \in {"success", "error"} =>
                 EntryOf(uploadedFiles', c) \subseteq {f}
        /\ uploadCalls' = uploadCalls =>
             Cardinality({c \in DOMAIN uploadCalls :
                            /\ EntryOf(uploadedFiles', c) # {}
                            /\ EntryOf(uploadedFiles', c) #
                                 EntryOf(uploadedFiles, c)}) <= 1]_vars

\* C28: the progress timer of an upload is cancelled once its request has
\* finished, however it finished; an uploading entry has a progress within
\* 0..ProgressCap that never decreases; progress is 100 for success entries
\* only and 0 for every error entry.
C28_TimerCancelled ==
  /\ [](\A c \in DOMAIN uploadCalls :
          uploadCalls[c].fetch # "pending" => ~uploadCalls[c].timer)
  /\ [](\A i \in DOMAIN uploadedFiles :
          LET f == uploadedFiles[i]
          IN  /\ f.status = "uploading" => f.progress \in 0..ProgressCap
              /\ f.status = "success" <=> f.progress = 100
              /\ f.status = "error" => f.progress = 0)
  /\ [][\A c \in DOMAIN uploadCalls :
          \A f \in EntryOf(uploadedFiles, c), g \in EntryOf(uploadedFiles', c) :
            (f.status = "uploading" /\ g.status = "uploading") =>
              g.progress >= f.progress]_vars
====
